---- MODULE Spec2Model ----
(***************************************************************************)
(* Patient record service (main.py) and premium prediction form            *)
(* (frontend.py).                                                          *)
(*                                                                         *)
(* Numbers are fixed point: height is in centimetres, weight in kilograms  *)
(* and bmi in hundredths, so bmi = round(weight / height_m^2, 2) is        *)
(* RoundHalfEven(weight * 1000000, height * height).                       *)
(*                                                                         *)
(* A JSON body is [vals |-> function from the keys that carry a value to   *)
(* that value, nulls |-> the keys sent as null]; a key in neither is       *)
(* absent.  The backing file is [kind, data]: kind is "missing",           *)
(* "corrupt" (json.load raises JSONDecodeError), "nonobject" (valid JSON,  *)
(* not a dict) or "object"; data is the dict as the sequence of its        *)
(* entries in insertion order.                                             *)
(***************************************************************************)
EXTENDS Integers, Sequences, FiniteSets, TLC

VARIABLES
    file,      \* patients.json
    prev,      \* patients.json as it was when the last request arrived
    req,       \* the last request handled by the service
    resp,      \* the response to it
    nreq,      \* number of requests handled so far
    deleted,   \* ids deleted and not created again since (history)
    pc,        \* concurrent workers: where each worker is in its request
    wreq,      \* ... the request each worker is handling
    snap,      \* ... the dict each worker got from load_data
    wresp,     \* ... the response each worker gave
    nstarted,  \* ... number of requests the workers have begun
    lastSave,  \* ... the worker, request and snapshot of the last save (history)
    jsonError, \* form client: the class response.json() raises on a bad body
    payload,   \* ... input_data of the last submission
    server,    \* ... what the prediction API did with it
    rendered   \* ... the widgets the submission rendered, in order

svars == <<file, prev, req, resp, nreq, deleted>>
wvars == <<pc, wreq, snap, wresp, nstarted, lastSave>>
fvars == <<jsonError, payload, server, rendered>>
vars == <<svars, wvars, fvars>>

(***************************************************************************)
(* Bounds                                                                  *)
(***************************************************************************)
MaxRequests == 3
MaxStarted == 3
MaxStored == 3

(***************************************************************************)
(* Input domains                                                           *)
(***************************************************************************)
PatientIds == {"P1", "P2"}
Fields == {"name", "city", "age", "gender", "height", "weight"}

RawValues(k) ==
    CASE k = "name"   -> {"Ann", "Bob"}
      [] k = "city"   -> {"Pune", "Goa"}
      [] k = "age"    -> {0, 1, 119, 120}
      [] k = "gender" -> {"male", "others", "robot"}
      [] k = "height" -> {0, 200, 210}
      [] k = "weight" -> {0, 74, 100, 120}
      [] k = "bmi"    -> {9999}

\* Keys the model also sends as JSON null.
Nullable == {"name", "age", "height"}

EmptyBody == [vals |-> <<>>, nulls |-> {}]

\* b with key k set to value v / to null / removed.
WithValue(b, k, v) ==
    [vals  |-> [x \in DOMAIN b.vals \cup {k} |-> IF x = k THEN v ELSE b.vals[x]],
     nulls |-> b.nulls \ {k}]
WithNull(b, k) ==
    [vals  |-> [x \in DOMAIN b.vals \ {k} |-> b.vals[x]],
     nulls |-> b.nulls \cup {k}]
Without(b, k) ==
    [vals  |-> [x \in DOMAIN b.vals \ {k} |-> b.vals[x]],
     nulls |-> b.nulls \ {k}]

\* Every body that supplies exactly the keys S: a value, or null where the
\* model tries it, for each.
RECURSIVE BodiesOver(_)
BodiesOver(S) ==
    IF S = {} THEN {EmptyBody}
    ELSE LET k == CHOOSE x \in S : TRUE
             R == BodiesOver(S \ {k})
         IN  { WithValue(b, k, v) : b \in R, v \in RawValues(k) }
             \cup (IF k \in Nullable THEN { WithNull(b, k) : b \in R } ELSE {})

BaseBody ==
    [vals |-> [name |-> "Ann", city |-> "Pune", age |-> 1, gender |-> "male",
               height |-> 200, weight |-> 74], nulls |-> {}]
OtherBody ==
    [vals |-> [name |-> "Bob", city |-> "Goa", age |-> 119, gender |-> "others",
               height |-> 210, weight |-> 100], nulls |-> {}]

\* Request bodies of POST /create: a complete record, also with one key
\* replaced or left out, or with a bmi of the client's own added.
CreateBodies ==
    UNION { { WithValue(BaseBody, k, v) : v \in RawValues(k) }
            \cup (IF k \in Nullable THEN {WithNull(BaseBody, k)} ELSE {})
            \cup {Without(BaseBody, k)}
            : k \in Fields }
    \cup {OtherBody, WithValue(BaseBody, "bmi", 9999)}

\* The key sets PUT /edit/{id} is tried with: none, each key alone, and
\* three pairs.
UpdateKeySets ==
    { {k} : k \in Fields }
    \cup { {}, {"height", "weight"}, {"name", "age"}, {"city", "gender"} }

\* Request bodies of PUT /edit/{id}, one of them with a bmi of the client's
\* own beside the weight.
UpdateBodies ==
    UNION { BodiesOver(S) : S \in UpdateKeySets }
    \cup { WithValue(WithValue(EmptyBody, "weight", 120), "bmi", 9999) }

SortFields == {"weight", "height", "bmi", "age"}
SortOrders == {"asc", "desc", "upward"}

(***************************************************************************)
(* Patient: field constraints and computed fields (main.py 19-53)          *)
(***************************************************************************)
GenderLiteral == {"male", "female", "others"}

\* Nearest integer to n / d, ties to the even one (Python's round).
RoundHalfEven(n, d) ==
    LET q == n \div d
        r == n % d
    IN  IF 2 * r < d THEN q
        ELSE IF 2 * r > d THEN q + 1
        ELSE IF q % 2 = 0 THEN q ELSE q + 1

\* Patient.bmi, in hundredths, of a height in cm and a weight in kg.
bmi(height, weight) ==
    IF height = 0 THEN 0 ELSE RoundHalfEven(weight * 1000000, height * height)

\* Faulty variant: each threshold belongs to the lower class.
verdict_inclusive(b) ==
    IF b <= 1850 THEN "Underweight"
    ELSE IF b <= 2500 THEN "Normal"
    ELSE IF b <= 3000 THEN "Overweight"
    ELSE "Obese"

\* Patient.verdict of a bmi in hundredths.
verdict(b) ==
    IF b < 1850 THEN "Underweight"
    ELSE IF b < 2500 THEN "Normal"
    ELSE IF b < 3000 THEN "Overweight"
    ELSE "Obese"

\* Patient(**m) validates: every declared field present and not null, and
\* within its constraint.  Keys that are not declared fields are ignored.
Patient(m) ==
    /\ m.nulls \cap Fields = {}
    /\ Fields \subseteq DOMAIN m.vals
    /\ m.vals["age"] > 0
    /\ m.vals["age"] < 120
    /\ m.vals["gender"] \in GenderLiteral
    /\ m.vals["height"] > 0
    /\ m.vals["weight"] > 0

\* PatientUpdate validates: every field optional and nullable; gender, when
\* given, one of the literals; height and weight, when given, > 0.
PatientUpdate(b) ==
    /\ "gender" \in DOMAIN b.vals => b.vals["gender"] \in GenderLiteral
    /\ "height" \in DOMAIN b.vals => b.vals["height"] > 0
    /\ "weight" \in DOMAIN b.vals => b.vals["weight"] > 0

\* patient.model_dump(exclude=['id']): the declared fields and the two
\* computed ones.
model_dump(m) ==
    [name    |-> m.vals["name"],
     city    |-> m.vals["city"],
     age     |-> m.vals["age"],
     gender  |-> m.vals["gender"],
     height  |-> m.vals["height"],
     weight  |-> m.vals["weight"],
     bmi     |-> bmi(m.vals["height"], m.vals["weight"]),
     verdict |-> verdict(bmi(m.vals["height"], m.vals["weight"]))]

\* patient_update.model_dump(exclude_unset=True): the declared fields the
\* request set, null ones included.
dump_exclude_unset(b) ==
    [vals  |-> [k \in DOMAIN b.vals \cap Fields |-> b.vals[k]],
     nulls |-> b.nulls \cap Fields]

(***************************************************************************)
(* The dict held in memory, as the sequence of its entries                 *)
(***************************************************************************)
Keys(data) == { data[i].id : i \in DOMAIN data }
IndexOf(data, id) == CHOOSE i \in DOMAIN data : data[i].id = id
DictGet(data, id) == data[IndexOf(data, id)].rec
\* data[id] = rec: in place for a key already there, at the end for a new one.
DictSet(data, id, rec) ==
    IF id \in Keys(data)
    THEN [data EXCEPT ![IndexOf(data, id)] = [id |-> id, rec |-> rec]]
    ELSE Append(data, [id |-> id, rec |-> rec])
\* Faulty variant: the last entry goes, whichever the key.
DictDel_last(data, id) == SubSeq(data, 1, Len(data) - 1)

\* del data[id]
DictDel(data, id) ==
    LET i == IndexOf(data, id)
    IN  [j \in 1..(Len(data) - 1) |-> IF j < i THEN data[j] ELSE data[j + 1]]
\* data.values()
Values(data) == [i \in DOMAIN data |-> data[i].rec]

(***************************************************************************)
(* load_data / save_data (main.py 76-103)                                  *)
(***************************************************************************)
ObjectFile(data) == [kind |-> "object", data |-> data]
MissingFile == [kind |-> "missing", data |-> <<>>]
CorruptFile == [kind |-> "corrupt", data |-> <<>>]
NonObjectFile == [kind |-> "nonobject", data |-> <<>>]

\* Faulty variant: every file that is no dict is rewritten as an empty one.
load_data_rewrites(f) ==
    [data |-> IF f.kind = "object" THEN f.data ELSE <<>>,
     file |-> IF f.kind # "object" THEN ObjectFile(<<>>) ELSE f]

\* The dict load_data returns, and the file as load_data leaves it.
load_data(f) ==
    [data |-> IF f.kind = "object" THEN f.data ELSE <<>>,
     file |-> IF f.kind = "missing" THEN ObjectFile(<<>>) ELSE f]

save_data(data) == ObjectFile(data)

(***************************************************************************)
(* Responses.  A body that fails the route's request model never reaches   *)
(* the handler (422); an exception the handler does not catch is the       *)
(* server's 500.                                                           *)
(***************************************************************************)
Response(status, detail, data) == [status |-> status, detail |-> detail, data |-> data]
Unprocessable == Response(422, "validation error", <<>>)
InternalServerError == Response(500, "Internal Server Error", <<>>)

Request(op, id, body, sort_by, order) ==
    [op |-> op, id |-> id, body |-> body, sort_by |-> sort_by, order |-> order]
NoRequest == Request("none", "", EmptyBody, "", "")

(***************************************************************************)
(* sorted(data.values(), key=lambda x: x.get(sort_by, 0), reverse=...)     *)
(***************************************************************************)
SortKey(x, sort_by) == IF sort_by \in DOMAIN x THEN x[sort_by] ELSE 0

Reverse(s) == [i \in DOMAIN s |-> s[Len(s) + 1 - i]]

\* x put into the ascending sequence s behind every element not greater.
InsertInOrder(s, x, sort_by) ==
    LET n == Cardinality({ i \in DOMAIN s : SortKey(s[i], sort_by) <= SortKey(x, sort_by) })
    IN  SubSeq(s, 1, n) \o <<x>> \o SubSeq(s, n + 1, Len(s))

RECURSIVE StableSort(_, _)
StableSort(s, sort_by) ==
    IF s = <<>> THEN <<>>
    ELSE InsertInOrder(StableSort(SubSeq(s, 1, Len(s) - 1), sort_by), s[Len(s)], sort_by)

\* Faulty variant: descending is ascending turned round.
sorted_reversed(s, sort_by, reverse) ==
    IF reverse THEN Reverse(StableSort(s, sort_by))
    ELSE StableSort(s, sort_by)

\* list.sort keeps reverse=True stable by reversing before and after.
sorted(s, sort_by, reverse) ==
    IF reverse THEN Reverse(StableSort(Reverse(s), sort_by))
    ELSE StableSort(s, sort_by)

(***************************************************************************)
(* The handlers, each as the file it leaves and the response it gives      *)
(***************************************************************************)
Result(f, r) == [file |-> f, resp |-> r]

view(f) ==
    LET loaded == load_data(f)
    IN  Result(loaded.file, Response(200, "", loaded.data))

view_patient(f, patient_id) ==
    LET loaded == load_data(f)
    IN  IF patient_id \in Keys(loaded.data)
        THEN Result(loaded.file, Response(200, "", <<DictGet(loaded.data, patient_id)>>))
        ELSE Result(loaded.file, Response(404, "Patient not found", <<>>))

sort_patients(f, sort_by, order) ==
    IF sort_by \notin {"weight", "height", "bmi"}
    THEN Result(f, Response(400, "Invalid field!", <<>>))
    ELSE IF order \notin {"asc", "desc"}
    THEN Result(f, Response(400, "Invalid order!", <<>>))
    ELSE LET loaded == load_data(f)
         IN  Result(loaded.file,
                    Response(200, "", sorted(Values(loaded.data), sort_by, order = "desc")))

\* Faulty variant: no check for a key already there.
create_patient_overwrites(f, id, body) ==
    IF ~Patient(body) THEN Result(f, Unprocessable)
    ELSE LET loaded == load_data(f)
         IN  Result(save_data(DictSet(loaded.data, id, model_dump(body))),
                    Response(201, "Patient created successfully", <<>>))

create_patient(f, id, body) ==
    IF ~Patient(body) THEN Result(f, Unprocessable)
    ELSE LET loaded == load_data(f)
         IN  IF id \in Keys(loaded.data)
             THEN Result(loaded.file, Response(400, "Patient already exists", <<>>))
             ELSE Result(save_data(DictSet(loaded.data, id, model_dump(body))),
                         Response(201, "Patient created successfully", <<>>))

\* Faulty variant: the fields the request did not set are merged too, as null.
merge_unset_too(existing, updated) ==
    [vals  |-> [k \in DOMAIN updated.vals \cup (DOMAIN existing \ Fields) |->
                   IF k \in DOMAIN updated.vals THEN updated.vals[k] ELSE existing[k]],
     nulls |-> Fields \ DOMAIN updated.vals]

\* for key, value in updated_patient_info.items(): existing_patient_info[key] = value
merge(existing, updated) ==
    [vals  |-> [k \in (DOMAIN existing \cup DOMAIN updated.vals) \ updated.nulls |->
                   IF k \in DOMAIN updated.vals THEN updated.vals[k] ELSE existing[k]],
     nulls |-> updated.nulls]

update_patient(f, patient_id, body) ==
    IF ~PatientUpdate(body) THEN Result(f, Unprocessable)
    ELSE LET loaded == load_data(f)
         IN  IF patient_id \notin Keys(loaded.data)
             THEN Result(loaded.file, Response(404, "Patient not found", <<>>))
             ELSE LET merged == merge(DictGet(loaded.data, patient_id), dump_exclude_unset(body))
                  IN  IF ~Patient(merged)
                      THEN Result(loaded.file, InternalServerError)
                      ELSE Result(save_data(DictSet(loaded.data, patient_id, model_dump(merged))),
                                  Response(200, "Patient updated successfully", <<>>))

\* Faulty variant: deleting what is not there succeeds.
delete_patient_idempotent(f, patient_id) ==
    LET loaded == load_data(f)
    IN  IF patient_id \notin Keys(loaded.data)
        THEN Result(loaded.file, Response(200, "Patient deleted successfully", <<>>))
        ELSE Result(save_data(DictDel(loaded.data, patient_id)),
                    Response(200, "Patient deleted successfully", <<>>))

delete_patient(f, patient_id) ==
    LET loaded == load_data(f)
    IN  IF patient_id \notin Keys(loaded.data)
        THEN Result(loaded.file, Response(404, "Patient not found", <<>>))
        ELSE Result(save_data(DictDel(loaded.data, patient_id)),
                    Response(200, "Patient deleted successfully", <<>>))

(***************************************************************************)
(* Sequential service: one request at a time, each handled to the end      *)
(***************************************************************************)
Handled(r, result) ==
    /\ nreq < MaxRequests
    /\ prev' = file
    /\ req' = r
    /\ file' = result.file
    /\ resp' = result.resp
    /\ nreq' = nreq + 1
    /\ deleted' = IF r.op = "delete" /\ result.resp.status = 200 THEN deleted \cup {r.id}
                  ELSE IF r.op = "create" /\ result.resp.status = 201 THEN deleted \ {r.id}
                  ELSE deleted
    /\ UNCHANGED <<wvars, fvars>>

View == Handled(Request("list", "", EmptyBody, "", ""), view(file))

ViewPatient ==
    \E id \in PatientIds :
        Handled(Request("get", id, EmptyBody, "", ""), view_patient(file, id))

SortPatients ==
    \E sort_by \in SortFields, order \in SortOrders :
        Handled(Request("sort", "", EmptyBody, sort_by, order),
                sort_patients(file, sort_by, order))

CreatePatient ==
    \E id \in PatientIds, body \in CreateBodies :
        Handled(Request("create", id, body, "", ""), create_patient(file, id, body))

UpdatePatient ==
    \E id \in PatientIds, body \in UpdateBodies :
        Handled(Request("update", id, body, "", ""), update_patient(file, id, body))

DeletePatient ==
    \E id \in PatientIds :
        Handled(Request("delete", id, EmptyBody, "", ""), delete_patient(file, id))

InitFiles == {MissingFile, CorruptFile, NonObjectFile, ObjectFile(<<>>)}

InitService ==
    /\ prev = file
    /\ req = NoRequest
    /\ resp = Response(0, "", <<>>)
    /\ nreq = 0
    /\ deleted = {}

(***************************************************************************)
(* Concurrent service: each worker runs one handler at a time; load_data   *)
(* and save_data are the steps that interleave.  Whatever a handler does   *)
(* between the two reads and writes only its own dict.                     *)
(***************************************************************************)
Workers == {"w1", "w2"}

WorkerRequests ==
    { Request("create", "P1", BaseBody, "", ""),
      Request("create", "P1", OtherBody, "", ""),
      Request("create", "P2", OtherBody, "", ""),
      Request("update", "P1", WithValue(EmptyBody, "weight", 120), "", ""),
      Request("update", "P2", WithValue(EmptyBody, "weight", 0), "", ""),
      Request("delete", "P1", EmptyBody, "", "") }

Handle(f, r) ==
    CASE r.op = "create" -> create_patient(f, r.id, r.body)
      [] r.op = "update" -> update_patient(f, r.id, r.body)
      [] r.op = "delete" -> delete_patient(f, r.id)

\* Faulty variant: the dict given is merged into what the file holds.
RECURSIVE overwrite_merging(_, _)
overwrite_merging(f, data) ==
    IF f.kind # "object" \/ data = <<>> THEN IF f.kind = "object" THEN f ELSE save_data(data)
    ELSE LET rest == overwrite_merging(f, SubSeq(data, 1, Len(data) - 1))
         IN  save_data(DictSet(rest.data, data[Len(data)].id, data[Len(data)].rec))

\* open('patients.json', 'w') and json.dump: the file becomes the dict given,
\* whatever it held.
overwrite(f, data) == save_data(data)

NoSave == [worker |-> "none", req |-> NoRequest, snap |-> <<>>]

\* A worker takes a request up to the return of load_data.  A handler that
\* raises or returns before save_data has answered by then.
Load(w, r) ==
    /\ pc[w] \in {"idle", "done"}
    /\ nstarted < MaxStarted
    /\ nstarted' = nstarted + 1
    /\ wreq' = [wreq EXCEPT ![w] = r]
    /\ LET rejected == Handle(file, r).resp.status = 422
           loaded   == load_data(file)
           result   == Handle(ObjectFile(loaded.data), r)
       IN  /\ file' = IF rejected THEN file ELSE loaded.file
           /\ snap' = IF rejected THEN snap ELSE [snap EXCEPT ![w] = loaded.data]
           /\ IF result.resp.status \in {200, 201}
              THEN /\ pc' = [pc EXCEPT ![w] = "loaded"]
                   /\ wresp' = [wresp EXCEPT ![w] = Response(0, "", <<>>)]
              ELSE /\ pc' = [pc EXCEPT ![w] = "done"]
                   /\ wresp' = [wresp EXCEPT ![w] = result.resp]
    /\ UNCHANGED <<lastSave, prev, req, resp, nreq, deleted, fvars>>

\* The rest of the handler: the change to the worker's dict, save_data and
\* the response.
Save(w) ==
    /\ pc[w] = "loaded"
    /\ LET result == Handle(ObjectFile(snap[w]), wreq[w])
       IN  /\ file' = overwrite(file, result.file.data)
           /\ wresp' = [wresp EXCEPT ![w] = result.resp]
    /\ pc' = [pc EXCEPT ![w] = "done"]
    /\ lastSave' = [worker |-> w, req |-> wreq[w], snap |-> snap[w]]
    /\ UNCHANGED <<wreq, snap, nstarted, prev, req, resp, nreq, deleted, fvars>>

InitWorkers ==
    /\ pc = [w \in Workers |-> "idle"]
    /\ wreq = [w \in Workers |-> NoRequest]
    /\ snap = [w \in Workers |-> <<>>]
    /\ wresp = [w \in Workers |-> Response(0, "", <<>>)]
    /\ nstarted = 0
    /\ lastSave = NoSave

(***************************************************************************)
(* Prediction form client (frontend.py 58-110)                             *)
(***************************************************************************)
Occupations ==
    {"retired", "freelancer", "student", "government_job", "business_owner",
     "unemployed", "private_job"}

\* input_data as the button handler builds it from the widgets.
input_data(smoker, occupation) ==
    [age |-> 30, weight |-> 65, height |-> 170, income_lpa |-> 10,
     smoker |-> (smoker = "Yes"), city |-> "Mumbai", occupation |-> occupation]

\* What requests.post and the server can do.  A response body is no JSON
\* ("invalid"), a JSON object, or JSON of another type ("array": 'in' works,
\* .get does not; "number": neither works).
ResponseBodies ==
    [json : {"invalid", "array", "number"}, nested : {FALSE}, category : {FALSE},
     confidence : {"absent"}, probabilities : {"absent"}, detail : {FALSE}]
    \cup
    [json : {"object"}, nested : BOOLEAN, category : BOOLEAN,
     confidence : {"absent", "zero", "positive", "string"},
     probabilities : {"absent", "empty", "three"}, detail : {FALSE}]
    \cup
    [json : {"object"}, nested : {FALSE}, category : {FALSE},
     confidence : {"absent"}, probabilities : {"absent"}, detail : {TRUE}]

NoBody ==
    [json |-> "invalid", nested |-> FALSE, category |-> FALSE,
     confidence |-> "absent", probabilities |-> "absent", detail |-> FALSE]

ServerOutcomes ==
    [raised : {"Timeout", "ConnectionError", "RequestException"}, status : {0}, body : {NoBody}]
    \cup [raised : {"none"}, status : {200, 404, 422, 500}, body : ResponseBodies]

Widget(kind, text, status) == [kind |-> kind, text |-> text, status |-> status]

\* The widgets of the status_code == 200 branch, up to the exception that
\* ends it, if any.
render_prediction(body) ==
    IF body.json # "object"
    THEN <<Widget("error", "Unexpected error", 0)>>
    ELSE <<Widget("success", IF body.category THEN "category" ELSE "Unknown", 0)>>
         \o (CASE body.confidence = "string" ->
                      <<Widget("error", "Unexpected error", 0)>>
               [] body.confidence = "positive" ->
                      <<Widget("info", "Confidence", 0)>>
               [] OTHER -> <<>>)
         \o (IF body.confidence # "string" /\ body.probabilities = "three"
             THEN <<Widget("subheader", "Prediction Probabilities", 0),
                    Widget("write", "probability", 0),
                    Widget("write", "probability", 0),
                    Widget("write", "probability", 0)>>
             ELSE <<>>)

\* The widgets of the else branch: the status, then the detail or the body.
render_api_error(status, body) ==
    <<Widget("error", "API Error", status)>>
    \o (IF body.json = "number" THEN <<Widget("error", "Unexpected error", 0)>>
        ELSE IF body.detail THEN <<Widget("error", "Details", 0)>>
        ELSE <<Widget("write", "Response", 0)>>)

\* The handler of the button: the try block and its except clauses in order.
\* errorClass is the class response.json() raises on a body that is no JSON.
predict(outcome, errorClass) ==
    CASE outcome.raised = "Timeout" ->
             <<Widget("error", "Request timed out", 0), Widget("info", "Try again later", 0)>>
      [] outcome.raised = "ConnectionError" ->
             <<Widget("error", "Could not connect", 0), Widget("info", "Check the server", 0)>>
      [] outcome.raised = "RequestException" ->
             <<Widget("error", "Request failed", 0)>>
      [] outcome.raised = "none" /\ outcome.body.json = "invalid" ->
             IF errorClass = "RequestException"
             THEN <<Widget("error", "Request failed", 0)>>
             ELSE <<Widget("error", "Invalid response from server", 0)>>
      [] outcome.raised = "none" /\ outcome.body.json # "invalid" /\ outcome.status = 200 ->
             render_prediction(outcome.body)
      [] OTHER ->
             render_api_error(outcome.status, outcome.body)

\* response.json() raises requests' JSONDecodeError, a RequestException and
\* a ValueError at once, from requests 2.27 on, and a plain ValueError
\* before: which one the except clauses see depends on the installation.
JsonErrorClasses == {"RequestException", "ValueError"}

\* A press of the button on a page that shows no result.
Submit ==
    \E smoker \in {"Yes", "No"}, occupation \in Occupations, outcome \in ServerOutcomes :
        /\ rendered = <<>>
        /\ payload' = input_data(smoker, occupation)
        /\ server' = outcome
        /\ rendered' = predict(outcome, jsonError)
        /\ UNCHANGED <<jsonError, svars, wvars>>

NoOutcome == [raised |-> "none", status |-> 0, body |-> NoBody]

\* Any other interaction runs the script again with the button not pressed:
\* the block under it renders nothing.
Rerun ==
    /\ rendered # <<>>
    /\ payload' = input_data("No", "retired")
    /\ server' = NoOutcome
    /\ rendered' = <<>>
    /\ UNCHANGED <<jsonError, svars, wvars>>

InitClient ==
    /\ payload = input_data("No", "retired")
    /\ server = NoOutcome
    /\ rendered = <<>>

(***************************************************************************)
(* Specifications                                                          *)
(***************************************************************************)
\* The service, one request after the other, from an empty store.
Init ==
    /\ file \in InitFiles
    /\ InitService
    /\ InitWorkers
    /\ InitClient
    /\ jsonError = "ValueError"

Next ==
    \/ View
    \/ ViewPatient
    \/ SortPatients
    \/ CreatePatient
    \/ UpdatePatient
    \/ DeletePatient

Spec == Init /\ [][Next]_vars

\* GET /sort over the files a store of at most MaxStored records can be,
\* records written by hand without the computed fields among them.
StoredRecords ==
    { model_dump(WithValue(WithValue(BaseBody, "name", n), "weight", w))
        : n \in {"Ann", "Bob"}, w \in {74, 100} }
    \cup { [name |-> n, height |-> 200] : n \in {"Ann", "Bob"} }

StoredIds == <<"P1", "P2", "P3", "P4", "P5">>

StoredFiles ==
    UNION { { ObjectFile([i \in 1..n |-> [id |-> StoredIds[i], rec |-> recs[i]]])
                : recs \in [1..n -> StoredRecords] }
            : n \in 0..MaxStored }

InitSort ==
    /\ file \in StoredFiles
    /\ InitService
    /\ InitWorkers
    /\ InitClient
    /\ jsonError = "ValueError"

NextSort == SortPatients

SpecSort == InitSort /\ [][NextSort]_vars

\* The service with two workers.
InitConcurrent ==
    /\ file \in {MissingFile, ObjectFile(<<>>)}
    /\ InitService
    /\ InitWorkers
    /\ InitClient
    /\ jsonError = "ValueError"

NextConcurrent ==
    \/ \E w \in Workers, r \in WorkerRequests : Load(w, r)
    \/ \E w \in Workers : Save(w)

SpecConcurrent == InitConcurrent /\ [][NextConcurrent]_vars

\* The form client against every behaviour of the prediction API.
InitForm ==
    /\ file = MissingFile
    /\ InitService
    /\ InitWorkers
    /\ InitClient
    /\ jsonError \in JsonErrorClasses

NextForm ==
    \/ Submit
    \/ Rerun

SpecForm == InitForm /\ [][NextForm]_vars

(***************************************************************************)
(* Vocabulary of the properties                                            *)
(***************************************************************************)
\* The mapping a file stands for: what a request sees of it.
Store(f) == IF f.kind = "object" THEN f.data ELSE <<>>

\* The field constraints of a patient record, on a body or a stored record.
MeetsConstraints(vals, nulls) ==
    /\ nulls \cap Fields = {}
    /\ \A k \in Fields : k \in DOMAIN vals
    /\ 0 < vals["age"] /\ vals["age"] < 120
    /\ vals["gender"] \in {"male", "female", "others"}
    /\ vals["height"] > 0
    /\ vals["weight"] > 0

\* The value a key has after the partial update b of the record old.
MergedValue(old, b, k) == IF k \in DOMAIN b.vals THEN b.vals[k] ELSE old[k]
MergedMeetsConstraints(old, b) ==
    /\ b.nulls \cap Fields = {}
    /\ 0 < MergedValue(old, b, "age") /\ MergedValue(old, b, "age") < 120
    /\ MergedValue(old, b, "gender") \in {"male", "female", "others"}
    /\ MergedValue(old, b, "height") > 0
    /\ MergedValue(old, b, "weight") > 0

EntryOf(data, id) == data[CHOOSE i \in DOMAIN data : data[i].id = id]
PositionOf(data, id) == CHOOSE i \in DOMAIN data : data[i].id = id

\* b is weight / height^2 to the nearest hundredth.
IsRoundedBmi(b, height, weight) ==
    LET n == weight * 1000000
        d == height * height
        e == IF b * d >= n THEN b * d - n ELSE n - b * d
    IN  /\ 2 * e <= d
        /\ 2 * e = d => b % 2 = 0

ThresholdVerdict(b) ==
    CASE b < 1850 -> "Underweight"
      [] b >= 1850 /\ b < 2500 -> "Normal"
      [] b >= 2500 /\ b < 3000 -> "Overweight"
      [] b >= 3000 -> "Obese"

(***************************************************************************)
(* C1: create of a valid record fails with 400 and leaves the file as it   *)
(* was when the id is already a key; otherwise it answers 201 and the      *)
(* store is the old store plus one entry under the id, holding the         *)
(* record's fields, every other entry unchanged.                           *)
(***************************************************************************)
C1_CreateConflictOrInsert ==
    (req.op = "create" /\ MeetsConstraints(req.body.vals, req.body.nulls)) =>
        IF req.id \in Keys(Store(prev))
        THEN resp.status = 400 /\ file = prev
        ELSE /\ resp.status = 201
             /\ file.kind = "object"
             /\ Len(file.data) = Len(Store(prev)) + 1
             /\ SubSeq(file.data, 1, Len(Store(prev))) = Store(prev)
             /\ file.data[Len(file.data)].id = req.id
             /\ \A k \in Fields : file.data[Len(file.data)].rec[k] = req.body.vals[k]

C1_Witness ==
    /\ req.op = "create"
    /\ MeetsConstraints(req.body.vals, req.body.nulls)
    /\ req.id \in Keys(Store(prev))
    /\ Len(Store(prev)) = 2
    /\ resp.status = 400

(***************************************************************************)
(* C2: an update of an existing id whose merged record is valid stores,    *)
(* under that id, each supplied field with the supplied value and each     *)
(* other input field with its prior value, bmi and verdict recomputed      *)
(* from the merged height and weight; the other entries are unchanged.     *)
(***************************************************************************)
C2_UpdateMergesAndRecomputes ==
    (/\ req.op = "update"
     /\ req.id \in Keys(Store(prev))
     /\ MergedMeetsConstraints(EntryOf(Store(prev), req.id).rec, req.body)) =>
        LET old == EntryOf(Store(prev), req.id).rec
            i   == PositionOf(Store(prev), req.id)
        IN  /\ resp.status = 200
            /\ file.kind = "object"
            /\ Len(file.data) = Len(Store(prev))
            /\ \A j \in DOMAIN file.data : j # i => file.data[j] = Store(prev)[j]
            /\ file.data[i].id = req.id
            /\ \A k \in Fields : file.data[i].rec[k] = MergedValue(old, req.body, k)
            /\ IsRoundedBmi(file.data[i].rec.bmi, MergedValue(old, req.body, "height"),
                            MergedValue(old, req.body, "weight"))
            /\ file.data[i].rec.verdict = ThresholdVerdict(file.data[i].rec.bmi)

C2_Witness ==
    /\ req.op = "update"
    /\ req.id \in Keys(Store(prev))
    /\ Len(Store(prev)) = 2
    /\ DOMAIN req.body.vals = {"name", "age"}
    /\ resp.status = 200
    /\ EntryOf(Store(file), req.id).rec # EntryOf(Store(prev), req.id).rec

(***************************************************************************)
(* C3 (as stated): a create whose record, or an update whose merged        *)
(* record, violates a field constraint fails with a validation error       *)
(* (422) and leaves the store unchanged; every stored record satisfies     *)
(* the constraints.                                                        *)
(***************************************************************************)
C3_ViolationsAreValidationErrors ==
    /\ (req.op = "create" /\ ~MeetsConstraints(req.body.vals, req.body.nulls)) =>
           resp.status = 422 /\ Store(file) = Store(prev)
    /\ (/\ req.op = "update"
        /\ req.id \in Keys(Store(prev))
        /\ ~MergedMeetsConstraints(EntryOf(Store(prev), req.id).rec, req.body)) =>
           resp.status = 422 /\ Store(file) = Store(prev)
    /\ \A i \in DOMAIN Store(file) : MeetsConstraints(Store(file)[i].rec, {})

(***************************************************************************)
(* C4: every stored record has bmi = round(weight / height^2, 2) of its    *)
(* own height and weight and the verdict of its own bmi by the             *)
(* thresholds 18.5, 25 and 30, each threshold belonging to the upper       *)
(* class.                                                                  *)
(***************************************************************************)
C4_DerivedFieldsInvariant ==
    \A i \in DOMAIN Store(file) :
        LET r == Store(file)[i].rec
        IN  /\ IsRoundedBmi(r.bmi, r.height, r.weight)
            /\ r.verdict = ThresholdVerdict(r.bmi)

C4_Witness ==
    /\ req.op = "update"
    /\ "bmi" \in DOMAIN req.body.vals
    /\ resp.status = 200
    /\ Len(Store(file)) = 2
    /\ EntryOf(Store(file), req.id).rec.bmi = 3000
    /\ EntryOf(Store(file), req.id).rec.verdict = "Obese"
    /\ EntryOf(Store(prev), req.id).rec.bmi = 1850
    /\ EntryOf(Store(prev), req.id).rec.verdict = "Normal"

\* The request reached the handler's load_data: its body passed the route's
\* request model, and a sort its two argument checks.
Loaded ==
    \/ req.op \in {"list", "get", "delete"}
    \/ req.op \in {"create", "update"} /\ resp.status # 422
    \/ req.op = "sort" /\ resp.status = 200

\* The body passes PUT /edit's request model: gender one of the literals,
\* height and weight above 0, wherever the body gives them a value.
PassesUpdateModel(b) ==
    /\ "gender" \in DOMAIN b.vals => b.vals["gender"] \in {"male", "female", "others"}
    /\ "height" \in DOMAIN b.vals => b.vals["height"] > 0
    /\ "weight" \in DOMAIN b.vals => b.vals["weight"] > 0

(***************************************************************************)
(* C5 (as stated): update and delete of an id that is not a key fail with  *)
(* 404 and leave the store unchanged, whatever the body holds.             *)
(***************************************************************************)
C5_AbsentIdIsNotFound ==
    (req.op \in {"update", "delete"} /\ req.id \notin Keys(Store(prev))) =>
        resp.status = 404 /\ Store(file) = Store(prev)

(***************************************************************************)
(* C5 (amended): delete of an id that is not a key fails with 404; update  *)
(* of such an id fails with 404 when the body passes the request model of  *)
(* the route and with 422 when it does not; the store is unchanged in      *)
(* every one of these cases.                                               *)
(***************************************************************************)
C5_AbsentIdNotFoundOrUnprocessable ==
    (req.op \in {"update", "delete"} /\ req.id \notin Keys(Store(prev))) =>
        /\ Store(file) = Store(prev)
        /\ resp.status = IF req.op = "update" /\ ~PassesUpdateModel(req.body)
                         THEN 422 ELSE 404

C5_Witness ==
    /\ req.op = "update"
    /\ req.id \notin Keys(Store(prev))
    /\ Len(Store(prev)) = 1
    /\ DOMAIN req.body.vals = {"height", "weight"}
    /\ resp.status = 404

(***************************************************************************)
(* C6: delete of an existing id removes exactly that entry; an id deleted  *)
(* and not created again since is no key of the store, list omits it and   *)
(* get of it fails with 404.                                               *)
(***************************************************************************)
C6_DeletedStaysAbsent ==
    /\ (req.op = "delete" /\ req.id \in Keys(Store(prev))) =>
           /\ resp.status = 200
           /\ file.kind = "object"
           /\ Len(file.data) = Len(Store(prev)) - 1
           /\ \A j \in DOMAIN file.data :
                  file.data[j] = Store(prev)[IF j < PositionOf(Store(prev), req.id)
                                             THEN j ELSE j + 1]
    /\ \A id \in deleted : id \notin Keys(Store(file))
    /\ req.op = "list" =>
           /\ resp.status = 200
           /\ resp.data = Store(prev)
           /\ \A id \in deleted : \A i \in DOMAIN resp.data : resp.data[i].id # id
    /\ (req.op = "get" /\ req.id \in deleted) => resp.status = 404
    /\ (req.op = "get" /\ req.id \in Keys(Store(prev))) =>
           resp.status = 200 /\ resp.data = <<EntryOf(Store(prev), req.id).rec>>

C6_Witness ==
    /\ req.op = "get"
    /\ req.id \in deleted
    /\ prev.kind = "object"
    /\ resp.status = 404

(***************************************************************************)
(* C9: a load of a missing file yields the empty mapping and leaves an     *)
(* empty store in the file; a load of a corrupt file (unparseable, or not  *)
(* an object) yields the empty mapping, raises nothing and does not        *)
(* rewrite the file; either way the request goes on as against an empty    *)
(* store, so a create succeeds and the file then holds that record only.   *)
(***************************************************************************)
C9_MissingOrCorruptLoadsEmpty ==
    (prev.kind # "object" /\ Loaded) =>
        /\ resp.status # 500
        /\ req.op = "list" => resp.status = 200 /\ resp.data = <<>>
        /\ req.op = "sort" => resp.status = 200 /\ resp.data = <<>>
        /\ req.op \in {"get", "update", "delete"} => resp.status = 404
        /\ req.op = "create" =>
               /\ resp.status = 201
               /\ file.kind = "object"
               /\ Len(file.data) = 1
               /\ file.data[1].id = req.id
               /\ \A k \in Fields : file.data[1].rec[k] = req.body.vals[k]
        /\ req.op # "create" =>
               file = IF prev.kind = "missing" THEN [kind |-> "object", data |-> <<>>]
                      ELSE prev

C9_Witness ==
    /\ prev.kind = "corrupt"
    /\ req.op = "create"
    /\ resp.status = 201
    /\ Len(file.data) = 1

(***************************************************************************)
(* C7: sort by weight, height or bmi, asc or desc, answers a permutation   *)
(* of the stored values that is non-decreasing (asc) or non-increasing     *)
(* (desc) in the field, a record without the field counting as 0, records  *)
(* with equal values in the order of the mapping in both directions; the   *)
(* store is unchanged.                                                     *)
(***************************************************************************)
FieldOrZero(r, k) == IF k \in DOMAIN r THEN r[k] ELSE 0

C7_SortIsStablePermutation ==
    (req.op = "sort" /\ req.sort_by \in {"weight", "height", "bmi"}
                     /\ req.order \in {"asc", "desc"}) =>
        LET stored == [i \in DOMAIN Store(prev) |-> Store(prev)[i].rec]
            n      == Len(stored)
            key(r) == FieldOrZero(r, req.sort_by)
        IN  /\ resp.status = 200
            /\ file = prev
            /\ Len(resp.data) = n
            /\ \E p \in [1..n -> 1..n] :
                   /\ \A i, j \in 1..n : i # j => p[i] # p[j]
                   /\ \A i \in 1..n : resp.data[i] = stored[p[i]]
                   /\ \A i, j \in 1..n : i < j =>
                          /\ req.order = "asc" => key(stored[p[i]]) <= key(stored[p[j]])
                          /\ req.order = "desc" => key(stored[p[i]]) >= key(stored[p[j]])
                          /\ key(stored[p[i]]) = key(stored[p[j]]) => p[i] < p[j]

\* A descending sort of three records, two of them equal in the field and one
\* without it, that is not the ascending one reversed.
C7_Witness ==
    /\ req.op = "sort"
    /\ req.sort_by = "weight"
    /\ req.order = "desc"
    /\ resp.status = 200
    /\ Len(resp.data) = 3
    /\ "weight" \notin DOMAIN resp.data[3]
    /\ "weight" \in DOMAIN resp.data[1] \cap DOMAIN resp.data[2]
    /\ resp.data[1] # resp.data[2]
    /\ resp.data[1].weight = resp.data[2].weight
    /\ resp.data[1] = Store(prev)[1].rec

(***************************************************************************)
(* C8: with workers interleaving at load_data and save_data the file is    *)
(* always the snapshot the last saver loaded plus that saver's own change, *)
(* whatever the others saved in between.                                   *)
(* The witness is the lost update: two creates of one id both answered     *)
(* 201 and only one of the two records is in the store.                    *)
(***************************************************************************)
ChangeApplied(snapshot, r, data) ==
    CASE r.op = "create" ->
             /\ Len(data) = Len(snapshot) + 1
             /\ SubSeq(data, 1, Len(snapshot)) = snapshot
             /\ data[Len(data)].id = r.id
             /\ \A k \in Fields : data[Len(data)].rec[k] = r.body.vals[k]
      [] r.op = "delete" ->
             /\ Len(data) = Len(snapshot) - 1
             /\ \A j \in DOMAIN data :
                    data[j] = snapshot[IF j < PositionOf(snapshot, r.id) THEN j ELSE j + 1]
      [] r.op = "update" ->
             /\ Len(data) = Len(snapshot)
             /\ \A j \in DOMAIN data :
                    IF j = PositionOf(snapshot, r.id)
                    THEN /\ data[j].id = r.id
                         /\ \A k \in Fields :
                                data[j].rec[k] = MergedValue(snapshot[j].rec, r.body, k)
                    ELSE data[j] = snapshot[j]
      [] OTHER -> FALSE

C8_LastWriterWins ==
    lastSave.worker # "none" =>
        /\ file.kind = "object"
        /\ ChangeApplied(lastSave.snap, lastSave.req, file.data)

C8_Witness ==
    /\ \A w \in Workers : pc[w] = "done" /\ wreq[w].op = "create" /\ wreq[w].id = "P1"
    /\ \A w \in Workers : wresp[w].status = 201
    /\ wreq["w1"].body # wreq["w2"].body
    /\ nstarted = 2
    /\ Len(Store(file)) = 1
    /\ \E w \in Workers : Store(file)[1].rec.name # wreq[w].body.vals["name"]

(***************************************************************************)
(* C10 (as stated): a submission renders exactly one outcome, and each     *)
(* failure class has its own message: timeout, connection failure,         *)
(* generic request failure, a body that is no JSON (an invalid response,   *)
(* not a request failure), and every status other than 200 (an API error   *)
(* with the status, and the detail when the server sent one).              *)
(***************************************************************************)
Outcomes(ws) == { i \in DOMAIN ws : ws[i].kind \in {"error", "success"} /\ ws[i].text # "Details" }

C10_FailureClassesDistinct ==
    rendered # <<>> =>
        /\ Cardinality(Outcomes(rendered)) = 1
        /\ server.raised = "Timeout" => rendered[1].text = "Request timed out"
        /\ server.raised = "ConnectionError" => rendered[1].text = "Could not connect"
        /\ server.raised = "RequestException" => rendered[1].text = "Request failed"
        /\ (server.raised = "none" /\ server.status # 200) =>
               /\ rendered[1].text = "API Error"
               /\ rendered[1].status = server.status
               /\ server.body.detail =>
                      \E i \in DOMAIN rendered : rendered[i].text = "Details"
        /\ (server.raised = "none" /\ server.status = 200 /\ server.body.json = "invalid") =>
               rendered[1].text = "Invalid response from server"

====
